---- MODULE Spec2Model ----
(***************************************************************************)
(* Model of sentry.mediators.sentry_app_installations.Authorizer           *)
(* (src/src/sentry/mediators/sentry_app_installations/authorizer.py).      *)
(*                                                                         *)
(* The store holds Users, SentryApps, ApiApplications, Installations, one  *)
(* ApiGrant and the ApiTokens issued so far.  An Authorizer is constructed *)
(* with a request and its call() runs as one step (Authorize); the         *)
(* mediator is then dropped (Return).  The clock is read several times     *)
(* during one call(); it may advance between two reads.                    *)
(*                                                                         *)
(* The store of Spec: every Installation has its SentryApp and every       *)
(* SentryApp its ApiApplication.  Which user is the proxy user of an App,  *)
(* which user owns an ApiApplication and which ApiApplication the stored   *)
(* grant belongs to are chosen freely in Init: these are the relations     *)
(* call() checks.  Codes and refresh tokens are unique.                    *)
(*                                                                         *)
(* SpecDangling is Spec with a store in which an Installation may have     *)
(* lost its SentryApp or a SentryApp its ApiApplication, the cases the     *)
(* DoesNotExist handlers of Authorizer.sentry_app and                      *)
(* Authorizer.application are written for.                                 *)
(*                                                                         *)
(* SpecConcurrent runs two Authorizers on refresh requests against one     *)
(* store that holds an issued token; a step is one store call of one of    *)
(* them, and the clock may advance between any two steps.                  *)
(***************************************************************************)
EXTENDS Integers, Sequences, FiniteSets, TLC

-----------------------------------------------------------------------------
(* Bounds *)

MaxTokens == 3          \* at most this many ApiToken rows are created
MaxTime == 1            \* the clock runs over 0..MaxTime
GrantExpiresAt == 1     \* expires_at of the stored ApiGrant

-----------------------------------------------------------------------------
(* Program constants *)

TOKEN_LIFE_IN_HOURS == 8

AUTHORIZATION == "authorization_code"

REFRESH == "refresh_token"

GRANT_TYPES == {AUTHORIZATION, REFRESH}

-----------------------------------------------------------------------------
(* Values *)

None == "None"

APIUnauthorized == "APIUnauthorized"

Users == {"u1", "u2"}

SentryApps == {"a1", "a2"}

ApiApplications == {"p1", "p2"}

Installs == {"i1", "i2"}

ClientIds == {"c1", "c2"}

\* User.is_sentry_app
is_sentry_app == [u \in Users |-> u = "u1"]

\* SentryAppInstallation.sentry_app
install_sentry_app == [i \in Installs |-> IF i = "i1" THEN "a1" ELSE "a2"]

\* SentryApp.application
sentry_app_application == [a \in SentryApps |-> IF a = "a1" THEN "p1" ELSE "p2"]

\* SentryApp.scope_list
sentry_app_scope_list ==
    [a \in SentryApps |-> IF a = "a1" THEN <<"s1">> ELSE <<"s1", "s2">>]

\* ApiApplication.client_id
application_client_id == [p \in ApiApplications |-> IF p = "p1" THEN "c1" ELSE "c2"]

\* values the store hands out for ApiToken.token / ApiToken.refresh_token
TokenPool == <<"t1", "t2", "t3", "t4", "t5", "t6">>

RefreshPool == <<"r1", "r2", "r3", "r4", "r5", "r6">>

\* the code of the stored grant, and a code no grant has
Codes == {"k1", "k2"}

GrantTypeInputs == GRANT_TYPES \cup {"stuff"}

CodeInputs == {None, ""} \cup Codes

RefreshInputs == {None, ""} \cup {RefreshPool[n] : n \in 1..MaxTokens}

\* the Params of the mediator
Requests ==
    [install : Installs, grant_type : GrantTypeInputs, code : CodeInputs,
     refresh_token : RefreshInputs, client_id : ClientIds, user : Users]

NoResult == [kind |-> None, id |-> 0]

\* the concurrent Authorizers
Procs == {1, 2}

NoRequest == [install |-> None, grant_type |-> None, code |-> None,
              refresh_token |-> None, client_id |-> None, user |-> None]

-----------------------------------------------------------------------------
VARIABLES
    proxy_user,     \* SentryApp.proxy_user, per SentryApp
    owner,          \* ApiApplication.owner, per ApiApplication
    grants,         \* the ApiGrant rows
    tokens,         \* the ApiToken rows, in order of creation
    now,            \* the clock (datetime.utcnow())
    pc,             \* "idle" | "done"
    request,        \* the Params of the constructed Authorizer
    result,         \* what call() returned or raised
    lookups,        \* the ApiGrant and ApiToken queries call() made
    exchanged,      \* history: the codes that have been exchanged for a token
    refreshed,      \* history: the refresh tokens that have been refreshed
    trace,          \* what call() resolved and wrote, in order
    no_sentry_app,  \* the Installations whose SentryApp row is missing
    no_application, \* the SentryApps whose ApiApplication row is missing
    cpc,            \* per concurrent Authorizer: the store call it is at
    crequest,       \* per concurrent Authorizer: its Params
    cresult         \* per concurrent Authorizer: what call() returned or raised

vars == <<proxy_user, owner, grants, tokens, now, pc, request, result,
          lookups, exchanged, refreshed, trace, no_sentry_app, no_application,
          cpc, crequest, cresult>>

\* the variables of the concurrent Authorizers
cvars == <<cpc, crequest, cresult>>

\* the variables of the Authorizer that runs call() in one step
svars == <<pc, request, result, lookups, exchanged, refreshed, trace>>

-----------------------------------------------------------------------------
(* Python truthiness of an optional string Param *)
Truthy(s) == s # None /\ s # ""

\* the grant looked up by its installation instead of its code
grant_of_install(req) ==
    IF \E i \in 1..Len(grants) : grants[i].sentry_app_installation = req.install
    THEN CHOOSE i \in 1..Len(grants) : grants[i].sentry_app_installation = req.install
    ELSE 0

\* ApiGrant.objects.get(code=...): the row's index, or 0 (DoesNotExist)
grant(req) ==
    IF \E i \in 1..Len(grants) : grants[i].code = req.code
    THEN CHOOSE i \in 1..Len(grants) : grants[i].code = req.code
    ELSE 0

\* ApiToken.objects.get(refresh_token=...): the row's index, or 0 (DoesNotExist)
token(req, toks) ==
    IF \E i \in 1..Len(toks) : toks[i].refresh_token = req.refresh_token
    THEN CHOOSE i \in 1..Len(toks) : toks[i].refresh_token = req.refresh_token
    ELSE 0

\* Authorizer.sentry_app
sentry_app(req) == install_sentry_app[req.install]

\* Authorizer.application: the SentryApp's ApiApplication, or None where the
\* property raises APIUnauthorized (ApiApplication.DoesNotExist)
application(req) ==
    IF sentry_app(req) \in no_application THEN None
    ELSE sentry_app_application[sentry_app(req)]

\* the read of self.install.sentry_app in _validate_install finds the row
install_has_sentry_app(req) == req.install \notin no_sentry_app

\* @memoize without its cache: the body runs at every access
memoize_uncached(tr, x, body) == Append(body, x)

\* @memoize: the property x is resolved at its first access, after the
\* resolutions its body makes (body), and cached thereafter
memoize(tr, x, body) ==
    IF \E k \in 1..Len(tr) : tr[k] = x THEN tr ELSE Append(body, x)

\* the resolutions made by one access of a property, after those in tr
sentry_app_resolved(tr) == memoize(tr, "sentry_app", tr)

application_resolved(tr) == memoize(tr, "application", sentry_app_resolved(tr))

grant_resolved(tr) == memoize(tr, "grant", tr)

\* Authorizer.token is a plain property: every access is a query
token_resolved(tr) == Append(tr, "token")

\* ApiGrant.is_expired() at clock reading t
grant_is_expired(g, t) == t >= g.expires_at

\* the store's generated ApiToken.token for the n-th row
generate_token(n) == TokenPool[n]

\* the store's generated ApiToken.refresh_token for the n-th row
generate_refresh_token(n) == RefreshPool[n]

\* _validate_code_or_refresh_token testing "is None" instead of falsiness
_validate_code_or_refresh_token_is_none(req) ==
    ~(req.code = None /\ req.refresh_token = None)

\* the checks return TRUE when they pass, FALSE when they raise APIUnauthorized
_validate_code_or_refresh_token(req) ==
    ~(~Truthy(req.code) /\ ~Truthy(req.refresh_token))

\* _validate_grant_type accepting any grant_type that is given
_validate_grant_type_any(req) == Truthy(req.grant_type)

_validate_grant_type(req) == req.grant_type \in GRANT_TYPES

_validate_install(req) == proxy_user[install_sentry_app[req.install]] = req.user

\* _validate_sentry_app testing the user instead of its is_sentry_app flag
_validate_sentry_app_any_user(req) == Truthy(req.user)

_validate_sentry_app(req) == is_sentry_app[req.user]

grant_belongs_to_install(req) ==
    grants[grant(req)].sentry_app_installation = req.install

application_owned_by_user(req) ==
    owner[grants[grant(req)].application] = req.user

\* client_id_matches comparing with the installation's Application instead of
\* the grant's
client_id_matches_install(req) ==
    application_client_id[application(req)] = req.client_id

client_id_matches(req) ==
    application_client_id[grants[grant(req)].application] = req.client_id

\* _validate_grant without the expiry test
_validate_grant_no_expiry(req, t) ==
    /\ grant(req) # 0
    /\ ~(\/ ~grant_belongs_to_install(req)
         \/ ~application_owned_by_user(req)
         \/ ~client_id_matches(req))

\* _validate_grant with the expiry test inverted
_validate_grant_inverted_expiry(req, t) ==
    /\ grant(req) # 0
    /\ ~(\/ ~grant_belongs_to_install(req)
         \/ ~application_owned_by_user(req)
         \/ ~client_id_matches(req))
    /\ grant_is_expired(grants[grant(req)], t)

\* t: the clock reading inside grant.is_expired()
_validate_grant(req, t) ==
    /\ grant(req) # 0
    /\ ~(\/ ~grant_belongs_to_install(req)
         \/ ~application_owned_by_user(req)
         \/ ~client_id_matches(req))
    /\ ~grant_is_expired(grants[grant(req)], t)

\* is_token_expired that never finds a token expired
is_token_expired_never(req, toks, t) == toks[token(req, toks)].expires_at < 0

\* t: the clock reading of this evaluation
is_token_expired(req, toks, t) == toks[token(req, toks)].expires_at < t

\* _validate_refresh_token that also compares the client_id
_validate_refresh_token_client_id(req, toks, t) ==
    /\ token(req, toks) # 0
    /\ ~(\/ toks[token(req, toks)].application # application(req)
         \/ application_client_id[application(req)] # req.client_id
         \/ is_token_expired(req, toks, t))

\* _validate_refresh_token without the application test
_validate_refresh_token_no_application(req, toks, t) ==
    /\ token(req, toks) # 0
    /\ ~is_token_expired(req, toks, t)

_validate_refresh_token(req, toks, t) ==
    /\ token(req, toks) # 0
    /\ ~(\/ toks[token(req, toks)].application # application(req)
         \/ is_token_expired(req, toks, t))

\* _expire_active_token expiring every token of the found token's application
_expire_active_token_of_application(req, toks, t1, t2) ==
    IF ~is_token_expired(req, toks, t1)
    THEN [i \in 1..Len(toks) |->
            IF toks[i].application = toks[token(req, toks)].application
            THEN [toks[i] EXCEPT !.expires_at = t2]
            ELSE toks[i]]
    ELSE toks

\* _expire_active_token with its test inverted
_expire_active_token_inverted(req, toks, t1, t2) ==
    IF is_token_expired(req, toks, t1)
    THEN [toks EXCEPT ![token(req, toks)].expires_at = t2]
    ELSE toks

\* t1: the reading inside is_token_expired, t2: the reading of the update
_expire_active_token(req, toks, t1, t2) ==
    IF ~is_token_expired(req, toks, t1)
    THEN [toks EXCEPT ![token(req, toks)].expires_at = t2]
    ELSE toks

\* create_api_token without the token life added to the clock reading
create_api_token_no_life(req, toks, t) ==
    Append(toks, [user          |-> req.user,
                  application   |-> application(req),
                  scope_list    |-> sentry_app_scope_list[sentry_app(req)],
                  expires_at    |-> t,
                  token         |-> generate_token(Len(toks) + 1),
                  refresh_token |-> generate_refresh_token(Len(toks) + 1)])

\* t: the clock reading of the creation
create_api_token(req, toks, t) ==
    Append(toks, [user          |-> req.user,
                  application   |-> application(req),
                  scope_list    |-> sentry_app_scope_list[sentry_app(req)],
                  expires_at    |-> t + TOKEN_LIFE_IN_HOURS,
                  token         |-> generate_token(Len(toks) + 1),
                  refresh_token |-> generate_refresh_token(Len(toks) + 1)])

\* the ApiToken queries of _validate_refresh_token: self.token is a property,
\* every use of it is a query
_validate_refresh_token_queries(req, toks) ==
    IF token(req, toks) = 0 THEN 1
    ELSE IF toks[token(req, toks)].application # application(req) THEN 1
    ELSE 2

\* the ApiToken queries of _expire_active_token
_expire_active_token_queries(req, toks, t1) ==
    IF ~is_token_expired(req, toks, t1) THEN 2 ELSE 1

\* the queries one call() has made: self.grant is memoized, one query
Lookups(g, t) == [grant |-> g, token |-> t]

\* what _validate_grant resolves, in order
_validate_grant_resolutions(req, tr) ==
    IF grant(req) = 0 \/ ~grant_belongs_to_install(req)
    THEN grant_resolved(tr)
    ELSE IF ~application_owned_by_user(req)
    THEN grant_resolved(grant_resolved(tr))
    ELSE IF ~client_id_matches(req)
    THEN grant_resolved(grant_resolved(grant_resolved(tr)))
    ELSE grant_resolved(grant_resolved(grant_resolved(grant_resolved(tr))))

\* what _validate_refresh_token resolves, in order
_validate_refresh_token_resolutions(req, toks, tr) ==
    IF token(req, toks) = 0
    THEN token_resolved(tr)
    ELSE IF toks[token(req, toks)].application # application(req)
    THEN application_resolved(token_resolved(tr))
    ELSE token_resolved(application_resolved(token_resolved(tr)))

\* what _expire_active_token resolves and writes, in order
_expire_active_token_resolutions(req, toks, t1, tr) ==
    IF ~is_token_expired(req, toks, t1)
    THEN Append(token_resolved(token_resolved(tr)), "update")
    ELSE token_resolved(tr)

\* what create_api_token resolves and writes, in order
create_api_token_resolutions(req, tr) ==
    IF application(req) = None
    THEN application_resolved(tr)
    ELSE Append(sentry_app_resolved(application_resolved(tr)), "create")

\* call() raised APIUnauthorized
Raised(toks, t, lk) ==
    [result |-> [kind |-> APIUnauthorized, id |-> 0],
     tokens |-> toks, now |-> t, lookups |-> lk]

\* call() returned the ApiToken row it created (the last one)
Returned(toks, t, lk) ==
    [result |-> [kind |-> "ApiToken", id |-> Len(toks)],
     tokens |-> toks, now |-> t, lookups |-> lk]

\* call() let SentryApp.DoesNotExist through: _validate_install reads
\* self.install.sentry_app outside the try of Authorizer.sentry_app
Escaped(toks, t, lk) ==
    [result |-> [kind |-> "SentryApp.DoesNotExist", id |-> 0],
     tokens |-> toks, now |-> t, lookups |-> lk]

\* return self.create_api_token(): the arguments are evaluated first, and
\* self.application raises APIUnauthorized when the ApiApplication is missing;
\* t0 is the last reading taken before, t the reading of the creation
Created(req, toks, t0, t, lk) ==
    IF application(req) = None
    THEN Raised(toks, t0, lk)
    ELSE Returned(create_api_token(req, toks, t), t, lk)

\* Authorizer.call with the successive clock readings clk[1] <= ... <= clk[4];
\* the outcome is the result, the ApiToken rows, the last reading taken and
\* the queries made
call(req, clk) ==
    IF ~_validate_code_or_refresh_token(req) THEN Raised(tokens, now, Lookups(0, 0))
    ELSE IF ~_validate_grant_type(req) THEN Raised(tokens, now, Lookups(0, 0))
    ELSE IF ~install_has_sentry_app(req) THEN Escaped(tokens, now, Lookups(0, 0))
    ELSE IF ~_validate_install(req) THEN Raised(tokens, now, Lookups(0, 0))
    ELSE IF ~_validate_sentry_app(req) THEN Raised(tokens, now, Lookups(0, 0))
    ELSE IF req.grant_type = AUTHORIZATION
         THEN IF ~_validate_grant(req, clk[1])
              THEN Raised(tokens, clk[1], Lookups(1, 0))
              ELSE Created(req, tokens, clk[1], clk[2], Lookups(1, 0))
    ELSE IF req.grant_type = REFRESH
         THEN IF ~_validate_refresh_token(req, tokens, clk[1])
              THEN Raised(tokens, clk[1],
                          Lookups(0, _validate_refresh_token_queries(req, tokens)))
              ELSE LET expired == _expire_active_token(req, tokens, clk[2], clk[3])
                       queries == _validate_refresh_token_queries(req, tokens)
                                  + _expire_active_token_queries(req, tokens, clk[2])
                   IN  Created(req, expired, clk[3], clk[4], Lookups(0, queries))
    ELSE Created(req, tokens, now, clk[1], Lookups(0, 0))

\* what call() resolves through its properties and writes, in order
resolutions(req, clk) ==
    IF \/ ~_validate_code_or_refresh_token(req)
       \/ ~_validate_grant_type(req)
       \/ ~install_has_sentry_app(req)
       \/ ~_validate_install(req)
       \/ ~_validate_sentry_app(req)
    THEN <<>>
    ELSE IF req.grant_type = AUTHORIZATION
         THEN IF ~_validate_grant(req, clk[1])
              THEN _validate_grant_resolutions(req, <<>>)
              ELSE create_api_token_resolutions(req,
                       _validate_grant_resolutions(req, <<>>))
    ELSE IF req.grant_type = REFRESH
         THEN IF ~_validate_refresh_token(req, tokens, clk[1])
              THEN _validate_refresh_token_resolutions(req, tokens, <<>>)
              ELSE create_api_token_resolutions(req,
                       _expire_active_token_resolutions(req, tokens, clk[2],
                           _validate_refresh_token_resolutions(req, tokens, <<>>)))
    ELSE create_api_token_resolutions(req, <<>>)

\* the readings one call can take: the first is the current time, and the
\* clock moves by at most one tick between two readings
ClockReadings ==
    {c \in {<<now, now + d1, now + d1 + d2, now + d1 + d2 + d3>> :
               d1 \in 0..1, d2 \in 0..1, d3 \in 0..1} :
        c[4] <= MaxTime}

-----------------------------------------------------------------------------
Init ==
    /\ proxy_user \in [SentryApps -> Users]
    /\ owner \in [ApiApplications -> Users]
    /\ \E p \in ApiApplications :
          grants = <<[code |-> "k1", application |-> p,
                      sentry_app_installation |-> "i1",
                      expires_at |-> GrantExpiresAt]>>
    /\ tokens = <<>>
    /\ now = 0
    /\ pc = "idle"
    /\ request = NoRequest
    /\ result = NoResult
    /\ lookups = Lookups(0, 0)
    /\ exchanged = {}
    /\ refreshed = {}
    /\ trace = <<>>
    /\ no_sentry_app = {}
    /\ no_application = {}
    /\ cpc = [p \in Procs |-> "idle"]
    /\ crequest = [p \in Procs |-> NoRequest]
    /\ cresult = [p \in Procs |-> NoResult]

\* the store of Init where Installation i2 has lost its SentryApp and
\* SentryApp a1 its ApiApplication, or SentryApp a2 its ApiApplication
InitDangling ==
    /\ proxy_user \in [SentryApps -> Users]
    /\ owner \in [ApiApplications -> Users]
    /\ \E p \in ApiApplications :
          grants = <<[code |-> "k1", application |-> p,
                      sentry_app_installation |-> "i1",
                      expires_at |-> GrantExpiresAt]>>
    /\ tokens = <<>>
    /\ now = 0
    /\ pc = "idle"
    /\ request = NoRequest
    /\ result = NoResult
    /\ lookups = Lookups(0, 0)
    /\ exchanged = {}
    /\ refreshed = {}
    /\ trace = <<>>
    /\ \E d \in {<<{"i2"}, {"a1"}>>, <<{}, {"a2"}>>} :
          no_sentry_app = d[1] /\ no_application = d[2]
    /\ cpc = [p \in Procs |-> "idle"]
    /\ crequest = [p \in Procs |-> NoRequest]
    /\ cresult = [p \in Procs |-> NoResult]

\* Authorizer.run(install=..., grant_type=..., ...): the mediator is
\* constructed with its Params and call() runs
Authorize(req) ==
    /\ pc = "idle"
    /\ Len(tokens) < MaxTokens
    /\ \E clk \in ClockReadings :
          LET out == call(req, clk)
          IN  /\ result' = out.result
              /\ tokens' = out.tokens
              /\ now' = out.now
              /\ lookups' = out.lookups
              /\ exchanged' = IF /\ req.grant_type = AUTHORIZATION
                                 /\ out.result.kind = "ApiToken"
                              THEN exchanged \cup {req.code}
                              ELSE exchanged
              /\ refreshed' = IF /\ req.grant_type = REFRESH
                                 /\ out.result.kind = "ApiToken"
                              THEN refreshed \cup {req.refresh_token}
                              ELSE refreshed
              /\ trace' = resolutions(req, clk)
    /\ pc' = "done"
    /\ request' = req
    /\ UNCHANGED <<proxy_user, owner, grants, no_sentry_app, no_application,
                   cvars>>

\* the mediator is dropped
Return ==
    /\ pc = "done"
    /\ pc' = "idle"
    /\ request' = NoRequest
    /\ result' = NoResult
    /\ lookups' = Lookups(0, 0)
    /\ trace' = <<>>
    /\ UNCHANGED <<proxy_user, owner, grants, tokens, now, exchanged, refreshed,
                   no_sentry_app, no_application, cvars>>

\* time passes between two calls
Tick ==
    /\ pc = "idle"
    /\ now < MaxTime
    /\ now' = now + 1
    /\ UNCHANGED <<proxy_user, owner, grants, tokens, pc, request, result,
                   lookups, exchanged, refreshed, trace, no_sentry_app,
                   no_application, cvars>>

Next ==
    \/ \E req \in Requests : Authorize(req)
    \/ Return
    \/ Tick

Spec == Init /\ [][Next]_vars

SpecDangling == InitDangling /\ [][Next]_vars

-----------------------------------------------------------------------------
(* Two Authorizers on one store, refresh_token path, one store call a step *)

\* the refresh requests of the concurrent Authorizers
ConcurrentRequests ==
    {r \in Requests : r.grant_type = REFRESH /\ r.code = None /\ r.client_id = "c1"}

\* the store of Init after user u1, proxy user of SentryApp a1, has exchanged
\* a grant on Installation i1 at clock 0
InitConcurrent ==
    /\ proxy_user \in {f \in [SentryApps -> Users] : f["a1"] = "u1"}
    /\ owner \in [ApiApplications -> Users]
    /\ \E p \in ApiApplications :
          grants = <<[code |-> "k1", application |-> p,
                      sentry_app_installation |-> "i1",
                      expires_at |-> GrantExpiresAt]>>
    /\ tokens = <<[user          |-> "u1",
                   application   |-> sentry_app_application["a1"],
                   scope_list    |-> sentry_app_scope_list["a1"],
                   expires_at    |-> TOKEN_LIFE_IN_HOURS,
                   token         |-> generate_token(1),
                   refresh_token |-> generate_refresh_token(1)]>>
    /\ now = 0
    /\ pc = "idle"
    /\ request = NoRequest
    /\ result = NoResult
    /\ lookups = Lookups(0, 0)
    /\ exchanged = {"k1"}
    /\ refreshed = {}
    /\ trace = <<>>
    /\ no_sentry_app = {}
    /\ no_application = {}
    /\ cpc = [p \in Procs |-> "idle"]
    /\ crequest = [p \in Procs |-> NoRequest]
    /\ cresult = [p \in Procs |-> NoResult]

\* Authorizer p ends with APIUnauthorized
Raise(p) ==
    /\ cpc' = [cpc EXCEPT ![p] = "done"]
    /\ cresult' = [cresult EXCEPT ![p] = [kind |-> APIUnauthorized, id |-> 0]]

\* Authorizer p goes on to the store call at label
Goto(p, label) ==
    /\ cpc' = [cpc EXCEPT ![p] = label]
    /\ UNCHANGED cresult

\* Authorizer p is constructed with req; call() makes its four checks of the
\* Params, the last two against the installation's SentryApp (no row of this
\* store is missing)
Validate(p, req) ==
    /\ cpc[p] = "idle"
    /\ crequest' = [crequest EXCEPT ![p] = req]
    /\ IF /\ _validate_code_or_refresh_token(req)
          /\ _validate_grant_type(req)
          /\ _validate_install(req)
          /\ _validate_sentry_app(req)
       THEN Goto(p, "_validate_refresh_token")
       ELSE Raise(p)
    /\ UNCHANGED <<proxy_user, owner, grants, tokens, now, svars,
                   no_sentry_app, no_application>>

\* _validate_refresh_token, first operand: the token is looked up and its
\* application compared
ValidateTokenApplication(p) ==
    /\ cpc[p] = "_validate_refresh_token"
    /\ IF /\ token(crequest[p], tokens) # 0
          /\ tokens[token(crequest[p], tokens)].application = application(crequest[p])
       THEN Goto(p, "is_token_expired")
       ELSE Raise(p)
    /\ UNCHANGED <<proxy_user, owner, grants, tokens, now, svars,
                   no_sentry_app, no_application, crequest>>

\* _validate_refresh_token, second operand: the token is looked up again and
\* its expires_at compared with the clock
ValidateTokenExpiry(p) ==
    /\ cpc[p] = "is_token_expired"
    /\ IF ~is_token_expired(crequest[p], tokens, now)
       THEN Goto(p, "_expire_active_token")
       ELSE Raise(p)
    /\ UNCHANGED <<proxy_user, owner, grants, tokens, now, svars,
                   no_sentry_app, no_application, crequest>>

\* _expire_active_token: the token is looked up and tested once more
ExpireTest(p) ==
    /\ cpc[p] = "_expire_active_token"
    /\ IF ~is_token_expired(crequest[p], tokens, now)
       THEN Goto(p, "update")
       ELSE Goto(p, "create_api_token")
    /\ UNCHANGED <<proxy_user, owner, grants, tokens, now, svars,
                   no_sentry_app, no_application, crequest>>

\* self.token.update(expires_at=datetime.utcnow()): the row found by the
\* refresh_token is written (rows are never deleted and a refresh_token never
\* changes, so the lookup and the write are one step)
ExpireUpdate(p) ==
    /\ cpc[p] = "update"
    /\ tokens' = [tokens EXCEPT ![token(crequest[p], tokens)].expires_at = now]
    /\ Goto(p, "create_api_token")
    /\ UNCHANGED <<proxy_user, owner, grants, now, svars,
                   no_sentry_app, no_application, crequest>>

\* create_api_token: the row is created and returned
Create(p) ==
    /\ cpc[p] = "create_api_token"
    /\ Len(tokens) < MaxTokens
    /\ tokens' = create_api_token(crequest[p], tokens, now)
    /\ cpc' = [cpc EXCEPT ![p] = "done"]
    /\ cresult' = [cresult EXCEPT ![p] = [kind |-> "ApiToken", id |-> Len(tokens')]]
    /\ UNCHANGED <<proxy_user, owner, grants, now, svars,
                   no_sentry_app, no_application, crequest>>

NextConcurrent ==
    \/ \E p \in Procs, req \in ConcurrentRequests : Validate(p, req)
    \/ \E p \in Procs : ValidateTokenApplication(p)
    \/ \E p \in Procs : ValidateTokenExpiry(p)
    \/ \E p \in Procs : ExpireTest(p)
    \/ \E p \in Procs : ExpireUpdate(p)
    \/ \E p \in Procs : Create(p)
    \/ Tick

SpecConcurrent == InitConcurrent /\ [][NextConcurrent]_vars

-----------------------------------------------------------------------------
(* Properties.  A step of Authorize is a step from pc = "idle" to          *)
(* pc = "done"; unprimed variables are the store before the call, primed   *)
(* ones the store after it, and request' is the request of the call.       *)

AuthorizeStep == pc = "idle" /\ pc' = "done"

\* the requesting user is the proxy user of the installation's App and is
\* flagged as an app-proxy identity
UserChecksPass(req) ==
    /\ proxy_user[install_sentry_app[req.install]] = req.user
    /\ is_sentry_app[req.user]

\* the grant row g is the one the request names and is tied to the request
GrantTied(req, g) ==
    /\ g.code = req.code
    /\ g.sentry_app_installation = req.install
    /\ owner[g.application] = req.user
    /\ application_client_id[g.application] = req.client_id

ValidAuthorizationCode(req) ==
    /\ req.grant_type = AUTHORIZATION
    /\ UserChecksPass(req)
    /\ \E i \in 1..Len(grants) :
          GrantTied(req, grants[i]) /\ ~grant_is_expired(grants[i], now)

\* C1: a request with grant_type authorization_code whose user passes both
\* user checks and whose Grant exists, is tied to the request's installation,
\* owner and client_id and is unexpired, returns a newly created Token, and
\* exactly one Token is added to the store.
C1_ValidCodeIssuesOneToken ==
    [][AuthorizeStep /\ ValidAuthorizationCode(request') =>
          /\ result'.kind = "ApiToken"
          /\ Len(tokens') = Len(tokens) + 1
          /\ result'.id = Len(tokens')
          /\ SubSeq(tokens', 1, Len(tokens)) = tokens]_vars

C1_Witness ==
    /\ pc = "done"
    /\ request.grant_type = AUTHORIZATION
    /\ UserChecksPass(request)
    /\ \E i \in 1..Len(grants) : GrantTied(request, grants[i])
    /\ result.kind = "ApiToken"
    /\ Len(tokens) = 1

\* C2: every Token issued by a call, on either path, has owner equal to the
\* requesting user, application equal to the Application of the installation's
\* App, scope_list equal to that App's scope list, and expires_at equal to the
\* issuance time plus 8 hours.
C2_IssuedTokenFields ==
    [][AuthorizeStep /\ result'.kind = "ApiToken" =>
          LET issued == tokens'[result'.id]
              app == install_sentry_app[request'.install]
          IN  /\ result'.id = Len(tokens')
              /\ Len(tokens') = Len(tokens) + 1
              /\ issued.user = request'.user
              /\ issued.application = sentry_app_application[app]
              /\ issued.scope_list = sentry_app_scope_list[app]
              /\ issued.expires_at = now' + 8]_vars

C2_Witness ==
    /\ pc = "done"
    /\ request.grant_type = REFRESH
    /\ result.kind = "ApiToken"
    /\ tokens[result.id].expires_at = now + 8
    /\ tokens[result.id].scope_list = sentry_app_scope_list[install_sentry_app[request.install]]
    /\ \E i \in 1..Len(tokens) : tokens[i].user = request.user /\ i # result.id

\* the token row i is the one a refresh request names, and the refresh is valid
ValidRefresh(req, i) ==
    /\ req.grant_type = REFRESH
    /\ UserChecksPass(req)
    /\ tokens[i].refresh_token = req.refresh_token
    /\ ~(tokens[i].expires_at < now)
    /\ tokens[i].application = sentry_app_application[install_sentry_app[req.install]]

\* C3: a valid refresh_token request returns a new Token whose token and
\* refresh_token values both differ from the old Token's; after the call the
\* old Token's expires_at is a clock reading of the call (between the call's
\* first and last reading), and a Token whose expires_at is no later than the
\* current time stays so at every later moment.
C3_RefreshRotatesAndExpires ==
    [][/\ AuthorizeStep =>
            \A i \in 1..Len(tokens) :
               ValidRefresh(request', i) =>
                  /\ result'.kind = "ApiToken"
                  /\ result'.id = Len(tokens) + 1
                  /\ tokens'[result'.id].token # tokens[i].token
                  /\ tokens'[result'.id].refresh_token # tokens[i].refresh_token
                  /\ tokens'[i].token = tokens[i].token
                  /\ tokens'[i].refresh_token = tokens[i].refresh_token
                  /\ tokens'[i].expires_at \in now..now'
       /\ \A i \in 1..Len(tokens) :
             tokens[i].expires_at <= now => tokens'[i].expires_at <= now']_vars

C3_Witness ==
    /\ pc = "done"
    /\ request.grant_type = REFRESH
    /\ result.kind = "ApiToken"
    /\ \E i \in 1..Len(tokens) :
          /\ tokens[i].refresh_token = request.refresh_token
          /\ tokens[i].expires_at = now
          /\ tokens[result.id].token # tokens[i].token
          /\ tokens[result.id].refresh_token # tokens[i].refresh_token

\* C4: a Grant is single-use: once an authorization_code request with a code
\* has returned a Token, no later authorization_code request presenting the
\* same code returns a Token.
C4_GrantSingleUse ==
    [][AuthorizeStep /\ request'.grant_type = AUTHORIZATION
                     /\ request'.code \in exchanged =>
          result'.kind # "ApiToken"]_vars

\* C5: on the authorization_code path, if no Grant with the supplied code
\* exists or the Grant's installation, Application owner or Application
\* client_id does not match the request, the result is Unauthorized and no
\* Token is created.
C5_UntiedGrantUnauthorized ==
    [][AuthorizeStep /\ request'.grant_type = AUTHORIZATION
                     /\ ~(\E i \in 1..Len(grants) : GrantTied(request', grants[i])) =>
          result'.kind = APIUnauthorized /\ tokens' = tokens]_vars

\* an unexpired grant that matches the request in everything but the client_id
C5_Witness ==
    /\ pc = "done"
    /\ request.grant_type = AUTHORIZATION
    /\ UserChecksPass(request)
    /\ \E i \in 1..Len(grants) :
          /\ grants[i].code = request.code
          /\ grants[i].sentry_app_installation = request.install
          /\ owner[grants[i].application] = request.user
          /\ application_client_id[grants[i].application] # request.client_id
          /\ ~grant_is_expired(grants[i], now)
    /\ result.kind = APIUnauthorized
    /\ tokens = <<>>

\* C6: if the requesting user is not the proxy user of the installation's App,
\* or is not flagged as an app-proxy identity, the result is Unauthorized for
\* every grant type, code and refresh_token, and no Token is created.
C6_OnlyFlaggedProxyUser ==
    [][AuthorizeStep /\ ~UserChecksPass(request') =>
          result'.kind = APIUnauthorized /\ tokens' = tokens]_vars

\* the proxy user of the App, not flagged, presenting a grant tied to the request
C6_Witness ==
    /\ pc = "done"
    /\ request.grant_type = AUTHORIZATION
    /\ proxy_user[install_sentry_app[request.install]] = request.user
    /\ ~is_sentry_app[request.user]
    /\ \E i \in 1..Len(grants) :
          GrantTied(request, grants[i]) /\ ~grant_is_expired(grants[i], now)
    /\ result.kind = APIUnauthorized

\* C7: on the refresh_token path the result is Unauthorized, and no Token is
\* created or changed, unless a Token with the supplied refresh_token exists,
\* belongs to the Application of the installation's App and is unexpired.
C7_RefreshNeedsLiveTokenOfApplication ==
    [][AuthorizeStep /\ request'.grant_type = REFRESH
                     /\ ~(\E i \in 1..Len(tokens) :
                            /\ tokens[i].refresh_token = request'.refresh_token
                            /\ tokens[i].application =
                                 sentry_app_application[install_sentry_app[request'.install]]
                            /\ ~(tokens[i].expires_at < now)) =>
          result'.kind = APIUnauthorized /\ tokens' = tokens]_vars

\* an unexpired Token of another Application, presented by a user who passes
\* the user checks
C7_Witness ==
    /\ pc = "done"
    /\ request.grant_type = REFRESH
    /\ UserChecksPass(request)
    /\ \E i \in 1..Len(tokens) :
          /\ tokens[i].refresh_token = request.refresh_token
          /\ tokens[i].application #
                sentry_app_application[install_sentry_app[request.install]]
          /\ ~(tokens[i].expires_at < now)
    /\ result.kind = APIUnauthorized

\* C8: a request with neither a code nor a refresh_token (absent or empty)
\* results in Unauthorized for every grant_type, installation, client_id and
\* user; no Grant or Token is looked up and the store is unchanged.
C8_NoCredentialUnauthorized ==
    [][AuthorizeStep /\ ~Truthy(request'.code) /\ ~Truthy(request'.refresh_token) =>
          /\ result'.kind = APIUnauthorized
          /\ tokens' = tokens
          /\ grants' = grants
          /\ lookups' = Lookups(0, 0)]_vars

\* empty strings for both, from a user and grant type that pass the other checks
C8_Witness ==
    /\ pc = "done"
    /\ request.code = ""
    /\ request.refresh_token = ""
    /\ request.grant_type = AUTHORIZATION
    /\ UserChecksPass(request)
    /\ result.kind = APIUnauthorized
    /\ lookups = Lookups(0, 0)

\* C9: a request whose grant_type is neither authorization_code nor
\* refresh_token results in Unauthorized and creates no Token.
C9_UnknownGrantTypeUnauthorized ==
    [][AuthorizeStep /\ request'.grant_type \notin {"authorization_code", "refresh_token"} =>
          result'.kind = APIUnauthorized /\ tokens' = tokens]_vars

\* everything else valid for an authorization_code exchange
C9_Witness ==
    /\ pc = "done"
    /\ request.grant_type = "stuff"
    /\ UserChecksPass(request)
    /\ \E i \in 1..Len(grants) :
          GrantTied(request, grants[i]) /\ ~grant_is_expired(grants[i], now)
    /\ result.kind = APIUnauthorized

\* C10: an authorization_code request whose Grant is expired results in
\* Unauthorized and creates no Token, whatever else matches.
C10_ExpiredGrantUnauthorized ==
    [][AuthorizeStep /\ request'.grant_type = AUTHORIZATION
                     /\ (\E i \in 1..Len(grants) :
                            /\ grants[i].code = request'.code
                            /\ grant_is_expired(grants[i], now)) =>
          result'.kind = APIUnauthorized /\ tokens' = tokens]_vars

\* an expired grant whose installation, owner and client_id match the request
C10_Witness ==
    /\ pc = "done"
    /\ request.grant_type = AUTHORIZATION
    /\ UserChecksPass(request)
    /\ \E i \in 1..Len(grants) :
          GrantTied(request, grants[i]) /\ grant_is_expired(grants[i], now)
    /\ result.kind = APIUnauthorized
    /\ lookups = Lookups(1, 0)

\* C11: a call never changes the expires_at of a Token that is already expired
\* when the request is made; in particular a refresh presenting an expired
\* Token leaves its expires_at as it was.
C11_ExpiredTokenKeepsExpiry ==
    [][AuthorizeStep =>
          \A i \in 1..Len(tokens) :
             tokens[i].expires_at < now => tokens'[i] = tokens[i]]_vars

\* a refresh that presents an expired Token of the right Application
C11_Witness ==
    /\ pc = "done"
    /\ request.grant_type = REFRESH
    /\ UserChecksPass(request)
    /\ \E i \in 1..Len(tokens) :
          /\ tokens[i].refresh_token = request.refresh_token
          /\ tokens[i].application =
                sentry_app_application[install_sentry_app[request.install]]
          /\ tokens[i].expires_at < now
    /\ result.kind = APIUnauthorized

\* C12: the side effects of one call: a Token row is added exactly when the
\* call returns a Token; Grants, proxy users and owners are unchanged; an
\* existing Token row changes only on the refresh_token path, only if it is the
\* row found by the supplied refresh_token, and only in its expires_at, which
\* becomes a clock reading of the call.
C12_SideEffects ==
    [][AuthorizeStep =>
          /\ grants' = grants /\ proxy_user' = proxy_user /\ owner' = owner
          /\ Len(tokens') = Len(tokens) + (IF result'.kind = "ApiToken" THEN 1 ELSE 0)
          /\ \A i \in 1..Len(tokens) :
                \/ tokens'[i] = tokens[i]
                \/ /\ request'.grant_type = REFRESH
                   /\ tokens[i].refresh_token = request'.refresh_token
                   /\ \E t \in now..now' :
                         tokens'[i] = [tokens[i] EXCEPT !.expires_at = t]]_vars

\* a refresh that expired the presented Token and left another live Token alone
C12_Witness ==
    /\ pc = "done"
    /\ request.grant_type = REFRESH
    /\ result.kind = "ApiToken"
    /\ \E i, j \in 1..Len(tokens) :
          /\ i # j /\ i # result.id /\ j # result.id
          /\ tokens[i].refresh_token = request.refresh_token
          /\ tokens[i].expires_at <= now
          /\ tokens[j].application = tokens[i].application
          /\ tokens[j].expires_at > now

\* C17: on a successful authorization_code exchange the Application of the
\* issued Token is the Application of the Grant that was exchanged.
C17_TokenOfGrantApplication ==
    [][AuthorizeStep /\ request'.grant_type = AUTHORIZATION
                     /\ result'.kind = "ApiToken" =>
          \E i \in 1..Len(grants) :
             /\ grants[i].code = request'.code
             /\ tokens'[result'.id].application = grants[i].application]_vars

\* the requests that differ from req only in client_id, or only in code
RefreshVariants(req) ==
    {[req EXCEPT !.client_id = c] : c \in ClientIds \ {req.client_id}}
       \cup {[req EXCEPT !.code = k] : k \in CodeInputs \ {req.code}}

\* C18: the outcome of a refresh_token request does not depend on its client_id
\* or code: whatever a refresh call returned and did to the Token rows, the
\* same request with another client_id or code returns and does the same.
C18_RefreshIgnoresClientIdAndCode ==
    [][AuthorizeStep /\ request'.grant_type = REFRESH =>
          LET readings == ClockReadings
          IN  \A r \in RefreshVariants(request') :
                 \E clk \in readings :
                    LET out == call(r, clk)
                    IN  /\ out.result = result'
                        /\ out.tokens = tokens'
                        /\ out.now = now']_vars

\* a successful refresh with a client_id that is not the Application's and a
\* code no grant has
C18_Witness ==
    /\ pc = "done"
    /\ request.grant_type = REFRESH
    /\ result.kind = "ApiToken"
    /\ request.code = "k2"
    /\ request.client_id #
          application_client_id[sentry_app_application[install_sentry_app[request.install]]]

\* the request carries only the credential of the other grant type
OnlyOtherCredential(req) ==
    \/ /\ req.grant_type = AUTHORIZATION
       /\ ~Truthy(req.code) /\ Truthy(req.refresh_token)
    \/ /\ req.grant_type = REFRESH
       /\ ~Truthy(req.refresh_token) /\ Truthy(req.code)

\* no stored Grant has an absent code, no stored Token an absent refresh_token
NoAbsentCredentialStored ==
    /\ \A i \in 1..Len(grants) : Truthy(grants[i].code)
    /\ \A i \in 1..Len(tokens) : Truthy(tokens[i].refresh_token)

\* C19: a request with grant_type authorization_code and only a refresh_token,
\* or grant_type refresh_token and only a code, passes the presence check (the
\* lookup is made when the user checks pass) but results in Unauthorized, with
\* no Token created or expired, provided no stored Grant has an absent code and
\* no stored Token an absent refresh_token.
C19_MatchingCredentialRequired ==
    [][AuthorizeStep /\ OnlyOtherCredential(request') /\ NoAbsentCredentialStored =>
          /\ result'.kind = APIUnauthorized
          /\ tokens' = tokens
          /\ UserChecksPass(request') =>
                lookups' = (IF request'.grant_type = AUTHORIZATION
                            THEN Lookups(1, 0) ELSE Lookups(0, 1))]_vars

\* an authorization_code request with a live refresh_token and no code, on the
\* grant's installation with the grant's client_id
C19_Witness ==
    /\ pc = "done"
    /\ request.grant_type = AUTHORIZATION
    /\ request.code = None
    /\ UserChecksPass(request)
    /\ \E i \in 1..Len(tokens) :
          tokens[i].refresh_token = request.refresh_token /\ tokens[i].expires_at > now
    /\ \E i \in 1..Len(grants) :
          /\ grants[i].sentry_app_installation = request.install
          /\ application_client_id[grants[i].application] = request.client_id
    /\ result.kind = APIUnauthorized
    /\ lookups = Lookups(1, 0)

\* C13: every call ends by returning a Token or by raising Unauthorized; in
\* particular, with the Installation's App missing or the App's Application
\* missing the outcome is Unauthorized.
C13_TokenOrUnauthorized ==
    pc = "done" => result.kind \in {"ApiToken", APIUnauthorized}

\* C15: a call that raises Unauthorized has created no Token and changed no
\* expiry: every check of the refresh path, the resolution of the App and of
\* its Application included, is made before the found Token is expired.
C15_NoPartialSuccess ==
    [][AuthorizeStep /\ result'.kind = APIUnauthorized => tokens' = tokens]_vars

\* a refresh of a live Token on an installation whose App has no Application
C15_Witness ==
    /\ pc = "done"
    /\ request.grant_type = REFRESH
    /\ UserChecksPass(request)
    /\ install_sentry_app[request.install] \in no_application
    /\ \E i \in 1..Len(tokens) :
          tokens[i].refresh_token = request.refresh_token /\ tokens[i].expires_at > now
    /\ result.kind = APIUnauthorized

\* C16: after a refresh with refresh_token r has returned a Token, every later
\* refresh with r raises Unauthorized and changes nothing, also when it is
\* made at the same clock reading.
C16_RefreshTokenRotates ==
    [][AuthorizeStep /\ request'.grant_type = REFRESH
                     /\ request'.refresh_token \in refreshed =>
          result'.kind = APIUnauthorized /\ tokens' = tokens]_vars

\* the number of times x occurs in tr
Occurrences(tr, x) == Cardinality({k \in 1..Len(tr) : tr[k] = x})

C14_AtMostOneConcurrentRefresh ==
    ~(/\ cpc[1] = "done" /\ cpc[2] = "done"
      /\ crequest[1].refresh_token = crequest[2].refresh_token
      /\ cresult[1].kind = "ApiToken"
      /\ cresult[2].kind = "ApiToken")

====
